---- MODULE Spec2Model ----
(***************************************************************************)
(* Signaling relay of the walkie-talkie application.                        *)
(*                                                                         *)
(* The server (src/unnamed/part_000) keeps the process-wide map            *)
(* activeRooms (room id -> Set of user ids) and relays negotiation         *)
(* messages between the sockets that joined a socket.io room.  The client  *)
(* (src/unnamed/part_001) builds the payloads the server relays.           *)
(*                                                                         *)
(* A JavaScript Set is modelled as a set (insertion order, which no        *)
(* handler depends on, is left out), a Map as a function whose DOMAIN is   *)
(* its key set.                                                            *)
(*                                                                         *)
(* Spec is the server under the messages of its callers.  ClientSpec is    *)
(* one WalkieTalkieApp (the client behind socket Me) together with the     *)
(* server's handling of what that client emits; the events the server      *)
(* sends it are inputs.  An async method of the client is a pending        *)
(* invocation that is resumed, or ended by a rejection, at each await.     *)
(***************************************************************************)
EXTENDS Integers, Sequences, FiniteSets, Bags, TLC

\* ------------------------------------------------------------------ bounds
NumSockets == 3
NumRooms == 2
\* async invocations on peer connections the client has in flight
MaxTasks == 2
\* capture streams getUserMedia hands out in a run
MaxStreams == 2

Sockets == 1..NumSockets
RoomIds == 1..NumRooms

\* ------------------------------------------------------------ identifiers
\* socket.id, the transport identifier socket.io gives a connection
SocketId(s) == <<"sid", s>>

\* 'user-' + random suffix: an application-level id, never a socket id
generateUserId(s) == <<"user", s>>

\* The kinds of participant id the callers of a deployment pass as userId:
\* the id the client's constructor generated, or (the server takes the
\* argument from the caller unchecked, and its disconnect cleanup looks for
\* socket.id) the caller's own transport id.
IdKinds == {"generated", "transport"}

\* the value of a property the payload does not have
Undefined == <<"undefined", 0>>

\* the socket of the client that ClientSpec follows
Me == 1

\* this.roomId = null
NullRoom == 0

\* '': roomInput.value.trim() of an input left empty
EmptyRoom == -1

\* this.localStream = null
NoStream == 0

\* !this.roomId
Falsy(value) == value \in {NullRoom, EmptyRoom}

VARIABLES
    idKind,       \* the kind of id the callers pass, fixed for a run
    status,       \* socket -> "new" | "open" | "closed"
    activeRooms,  \* Map: room id -> Set of user ids
    sioRooms,     \* socket -> the socket.io rooms it is in (socket.join/leave)
    emitted,      \* socket -> the events the last handler run emitted to it
    cleared,      \* history: socket -> rooms whose binding its leave-room
                  \*   cleared and it has not joined again
    owed,         \* history: <<t, room, p>>: t, joined to room, has not been
                  \*   told of the disconnect of the session joined as p
    refMembers,   \* history: room -> reference set (joins minus leaves)
    cleaned,      \* history: rooms a disconnect cleanup has altered
    \* the client behind socket Me (WalkieTalkieApp)
    appRoomId,        \* this.roomId
    localStream,      \* this.localStream: NoStream or a capture stream
    acquired,         \* the number of streams getUserMedia has handed out
    live,             \* the streams handed out whose tracks are not stopped
    enabled,          \* track.enabled of the tracks of this.localStream
    peerConnections,  \* this.peerConnections: participant id -> link
    pending,          \* bag of the async invocations suspended at an await
    joining,          \* joinRoom invocations awaiting getMicrophoneAccess
    outgoing,         \* what the client's last step emitted to the server
    hasJoined,        \* history: Me has emitted join-room while connected
    dropped           \* history: the client's last step was an answer or
                      \*   candidate it had no connection for

\* the server's variables
svars == <<idKind, status, activeRooms, sioRooms, emitted,
           cleared, owed, refMembers, cleaned>>

\* the client's variables
cvars == <<appRoomId, localStream, acquired, live, enabled, peerConnections,
           pending, joining, outgoing, hasJoined, dropped>>

vars == <<svars, cvars>>

\* ------------------------------------------------------- JS Set and Map
SetHas(S, x) == x \in S

SetAdd(S, x) == S \cup {x}

SetDelete(S, x) == S \ {x}

SetSize(S) == Cardinality(S)

\* Array.from(set): the elements of the set (their order is not modelled)
ArrayFrom(S) == S

MapHas(m, k) == k \in DOMAIN m

MapSet(m, k, v) == [x \in (DOMAIN m) \cup {k} |-> IF x = k THEN v ELSE m[x]]

MapDelete(m, k) == [x \in (DOMAIN m) \ {k} |-> m[x]]

\* membersOf: the member set of a room, empty when the room has no entry
MembersOf(rooms, r) == IF MapHas(rooms, r) THEN rooms[r] ELSE {}

\* a property read, data.from and the like
Field(data, name) == IF name \in DOMAIN data THEN data[name] ELSE Undefined

\* ------------------------------------------------------------ socket.io
\* io.to(room) in place of socket.to(room): the emitting socket is not left out
SocketToWithSender(joined, s, room) == {t \in Sockets : room \in joined[t]}

\* socket.to(room): every socket in the room except the emitting one
SocketTo(joined, s, room) == {t \in Sockets \ {s} : room \in joined[t]}

\* nothing emitted yet
NoEvents == [t \in Sockets |-> << >>]

\* emit: one event sent to every target, after those already sent to it
Emit(box, targets, msg) ==
    [t \in Sockets |-> IF t \in targets THEN Append(box[t], msg) ELSE box[t]]

\* an event with its payload: a participant id, a roster, or an object
IdEvent(event, id) == [event |-> event, userId |-> id]

UsersEvent(users) == [event |-> "room-users", users |-> users]

DataEvent(event, data) == [event |-> event, data |-> data]

\* ------------------------------------------------------- client payloads
createOfferData(roomId, to) == [room |-> roomId, offer |-> "offer", to |-> to]

handleOfferData(roomId, to) == [room |-> roomId, answer |-> "answer", to |-> to]

onicecandidateData(roomId, to) ==
    [room |-> roomId, candidate |-> "candidate", to |-> to]

talkingData(roomId, uid, isTalking) ==
    [room |-> roomId, userId |-> uid, isTalking |-> isTalking]

\* this.userId of the client behind socket s
userId(s) == IF idKind = "generated" THEN generateUserId(s) ELSE SocketId(s)

\* the keys of peerConnections: ids of other participants, learnt from
\* user-connected, room-users and offer events
PeerIds(s) == {userId(t) : t \in {u \in Sockets \ {s} : status[u] # "new"}}

\* ---------------------------------------------------------------- Init
\* constructor(): the fields of a new WalkieTalkieApp
constructor ==
    /\ appRoomId = NullRoom
    /\ localStream = NoStream
    /\ acquired = 0
    /\ live = {}
    /\ enabled = FALSE
    /\ peerConnections = << >>
    /\ pending = EmptyBag
    /\ joining = 0
    /\ outgoing = << >>
    /\ hasJoined = FALSE
    /\ dropped = FALSE

Init ==
    /\ constructor
    /\ idKind \in IdKinds
    /\ status = [s \in Sockets |-> "new"]
    /\ activeRooms = << >>
    /\ sioRooms = [s \in Sockets |-> {}]
    /\ emitted = NoEvents
    /\ cleared = [s \in Sockets |-> {}]
    /\ owed = {}
    /\ refMembers = [r \in RoomIds |-> {}]
    /\ cleaned = {}

\* io.on('connection'): a client connects;
\* the sockets are numbered in the order of their connection
Connection(s) ==
    /\ status[s] = "new"
    /\ \A u \in Sockets : u < s => status[u] # "new"
    /\ status' = [status EXCEPT ![s] = "open"]
    /\ UNCHANGED <<idKind, activeRooms, sioRooms, emitted, cleared, owed,
                   refMembers, cleaned>>

\* the room's Set is made anew on every join, not only when the room is new
RegistryJoinFreshSet(rooms, roomId, uid) ==
    MapSet(rooms, roomId, SetAdd({}, uid))

\* join-room's registry update: the room's Set is created when the room is
\* new, and userId is added to it
RegistryJoin(rooms, roomId, uid) ==
    LET created == IF ~MapHas(rooms, roomId) THEN MapSet(rooms, roomId, {})
                   ELSE rooms
    IN  MapSet(created, roomId, SetAdd(created[roomId], uid))

\* the roster is read before userId is added
JoinRoomRosterFirst(s, roomId, uid) ==
    LET added == RegistryJoin(activeRooms, roomId, uid)
        joined == [sioRooms EXCEPT ![s] = @ \cup {roomId}]
        others == SocketTo(joined, s, roomId)
        users == ArrayFrom(MembersOf(activeRooms, roomId))
    IN  /\ status[s] = "open"
        /\ activeRooms' = added
        /\ sioRooms' = joined
        /\ emitted' = Emit(Emit(NoEvents, others, IdEvent("user-connected", uid)),
                         {s}, UsersEvent(users))
        /\ refMembers' = [refMembers EXCEPT ![roomId] = @ \cup {uid}]
        /\ cleared' = [cleared EXCEPT ![s] = @ \ {roomId}]
        /\ UNCHANGED <<idKind, status, owed, cleaned>>

\* socket.on('join-room', (roomId, userId))
JoinRoom(s, roomId, uid) ==
    LET added == RegistryJoin(activeRooms, roomId, uid)
        joined == [sioRooms EXCEPT ![s] = @ \cup {roomId}]
        others == SocketTo(joined, s, roomId)
        users == ArrayFrom(IF MapHas(added, roomId) THEN added[roomId] ELSE {})
    IN  /\ status[s] = "open"
        /\ activeRooms' = added
        /\ sioRooms' = joined
        /\ emitted' = Emit(Emit(NoEvents, others, IdEvent("user-connected", uid)),
                         {s}, UsersEvent(users))
        /\ refMembers' = [refMembers EXCEPT ![roomId] = @ \cup {uid}]
        /\ cleared' = [cleared EXCEPT ![s] = @ \ {roomId}]
        /\ UNCHANGED <<idKind, status, owed, cleaned>>

\* socket.on('offer' | 'answer' | 'ice-candidate', (data)):
\* the payload is re-emitted to data.room with from: data.from
Relay(s, event, key, data) ==
    LET others == SocketTo(sioRooms, s, data.room)
        out == [k \in {key, "from"} |->
                   IF k = key THEN data[key] ELSE Field(data, "from")]
    IN  /\ status[s] = "open"
        /\ emitted' = Emit(NoEvents, others, DataEvent(event, out))
        /\ UNCHANGED <<idKind, status, activeRooms, sioRooms, cleared,
                       owed, refMembers, cleaned>>

Offer(s, data) == Relay(s, "offer", "offer", data)

Answer(s, data) == Relay(s, "answer", "answer", data)

IceCandidate(s, data) == Relay(s, "ice-candidate", "candidate", data)

\* socket.on('user-talking', (data))
UserTalking(s, data) ==
    LET others == SocketTo(sioRooms, s, data.room)
    IN  /\ status[s] = "open"
        /\ emitted' = Emit(NoEvents, others,
                         DataEvent("user-talking", [userId |-> data.userId,
                                              isTalking |-> data.isTalking]))
        /\ UNCHANGED <<idKind, status, activeRooms, sioRooms, cleared,
                       owed, refMembers, cleaned>>

\* the room is kept when its Set is left empty
RegistryLeaveKeepsRoom(rooms, roomId, uid) ==
    IF MapHas(rooms, roomId)
    THEN MapSet(rooms, roomId, SetDelete(rooms[roomId], uid))
    ELSE rooms

\* leave-room's registry update: userId is deleted from the room's Set, and
\* the room is deleted when its Set is left empty
RegistryLeave(rooms, roomId, uid) ==
    IF MapHas(rooms, roomId)
    THEN LET users == SetDelete(rooms[roomId], uid)
         IN  IF SetSize(users) = 0 THEN MapDelete(rooms, roomId)
             ELSE MapSet(rooms, roomId, users)
    ELSE rooms

\* socket.on('leave-room', (roomId, userId))
LeaveRoom(s, roomId, uid) ==
    LET deleted == RegistryLeave(activeRooms, roomId, uid)
        joined == [sioRooms EXCEPT ![s] = @ \ {roomId}]
        others == SocketTo(joined, s, roomId)
    IN  /\ status[s] = "open"
        /\ activeRooms' = deleted
        /\ sioRooms' = joined
        /\ emitted' = Emit(NoEvents, others, IdEvent("user-disconnected", uid))
        /\ cleared' = [cleared EXCEPT ![s] =
                          IF roomId \in sioRooms[s] THEN @ \cup {roomId} ELSE @]
        /\ owed' = {o \in owed : ~(o[1] = s /\ o[2] = roomId)}
        /\ refMembers' = [refMembers EXCEPT ![roomId] = @ \ {uid}]
        /\ UNCHANGED <<idKind, status, cleaned>>

\* socket t is sent user-disconnected(p)
Told(box, t, p) ==
    \E i \in 1..Len(box[t]) : /\ box[t][i].event = "user-disconnected"
                               /\ box[t][i].userId = p

\* the rooms of the registry whose Set holds socket.id
RoomsHolding(rooms, id) == {r \in DOMAIN rooms : SetHas(rooms[r], id)}

\* for (const [roomId, users] of activeRooms.entries()): the registry after
\* the loop has visited the rooms in todo
RECURSIVE CleanUpRooms(_, _, _)
CleanUpRooms(rooms, todo, id) ==
    IF todo = {} THEN rooms
    ELSE LET roomId == CHOOSE r \in todo : \A q \in todo : r <= q
             users == SetDelete(rooms[roomId], id)
             next == IF SetHas(rooms[roomId], id)
                     THEN IF SetSize(users) = 0 THEN MapDelete(rooms, roomId)
                          ELSE MapSet(rooms, roomId, users)
                     ELSE rooms
         IN  CleanUpRooms(next, todo \ {roomId}, id)

\* user-disconnected goes to every room, not only to those holding socket.id
RECURSIVE CleanUpEmitsEveryRoom(_, _, _, _, _)
CleanUpEmitsEveryRoom(box, rooms, todo, joined, s) ==
    IF todo = {} THEN box
    ELSE LET roomId == CHOOSE r \in todo : \A q \in todo : r <= q
         IN  CleanUpEmitsEveryRoom(
                 Emit(box, SocketTo(joined, s, roomId),
                      IdEvent("user-disconnected", SocketId(s))),
                 rooms, todo \ {roomId}, joined, s)

\* the same loop's emits: user-disconnected(socket.id) to each room holding it
RECURSIVE CleanUpEmits(_, _, _, _, _)
CleanUpEmits(box, rooms, todo, joined, s) ==
    IF todo = {} THEN box
    ELSE LET roomId == CHOOSE r \in todo : \A q \in todo : r <= q
             next == IF SetHas(rooms[roomId], SocketId(s))
                     THEN Emit(box, SocketTo(joined, s, roomId),
                               IdEvent("user-disconnected", SocketId(s)))
                     ELSE box
         IN  CleanUpEmits(next, rooms, todo \ {roomId}, joined, s)

\* socket.on('disconnect'): socket.io has taken the socket out of its rooms
\* when the handler runs
Disconnect(s) ==
    LET joined == [sioRooms EXCEPT ![s] = {}]
        hit == RoomsHolding(activeRooms, SocketId(s))
        sent == CleanUpEmits(NoEvents, activeRooms,
                             DOMAIN activeRooms, joined, s)
        due == {o \in Sockets \X RoomIds \X {userId(s)} :
                   /\ o[2] \in sioRooms[s]
                   /\ o[1] \in SocketTo(joined, s, o[2])}
        told == {o \in due : Told(sent, o[1], o[3])}
    IN  /\ status[s] = "open"
        /\ status' = [status EXCEPT ![s] = "closed"]
        /\ sioRooms' = joined
        /\ activeRooms' = CleanUpRooms(activeRooms, DOMAIN activeRooms,
                                       SocketId(s))
        /\ emitted' = sent
        /\ owed' = {o \in owed : o[1] # s} \cup (due \ told)
        /\ cleaned' = cleaned \cup hit
        /\ UNCHANGED <<idKind, cleared, refMembers>>

\* the server handles an event of one of its callers; the client of
\* ClientSpec stays as constructed
Next ==
    \/ \E s \in Sockets : Connection(s) /\ UNCHANGED cvars
    \/ \E s \in Sockets, r \in RoomIds :
          JoinRoom(s, r, userId(s)) /\ UNCHANGED cvars
    \/ \E s \in Sockets, r \in RoomIds : \E q \in PeerIds(s) :
          Offer(s, createOfferData(r, q)) /\ UNCHANGED cvars
    \/ \E s \in Sockets, r \in RoomIds : \E q \in PeerIds(s) :
          Answer(s, handleOfferData(r, q)) /\ UNCHANGED cvars
    \/ \E s \in Sockets, r \in RoomIds : \E q \in PeerIds(s) :
          IceCandidate(s, onicecandidateData(r, q)) /\ UNCHANGED cvars
    \/ \E s \in Sockets, r \in RoomIds, b \in BOOLEAN :
          UserTalking(s, talkingData(r, userId(s), b)) /\ UNCHANGED cvars
    \/ \E s \in Sockets, r \in RoomIds :
          LeaveRoom(s, r, userId(s)) /\ UNCHANGED cvars
    \/ \E s \in Sockets : Disconnect(s) /\ UNCHANGED cvars

Spec == Init /\ [][Next]_vars

\* the server goes on handling the events the clients send
FairSpec == Spec /\ WF_vars(Next)

\* ------------------------------------------------------------- the client
\* the ids of the other participants
Peers == {generateUserId(t) : t \in Sockets \ {Me}}

\* data.from of an answer or ice-candidate the server relays: the id of its
\* sender, or undefined when the payload the server got had no from (the
\* offers followed are those that carry the id of their sender)
Froms == Peers \cup {Undefined}

\* the rosters a room-users event carries
Rosters == SUBSET ({generateUserId(Me)} \cup Peers)

\* socket.emit(event, roomId, userId)
ArgsEvent(event, room, uid) == [event |-> event, room |-> room, userId |-> uid]

\* The server's handler runs on the event the client emitted.  An event
\* emitted while the socket is not connected stays in its send buffer.
Handled(msg) ==
    \/ /\ status[Me] # "open"
       /\ UNCHANGED svars
    \/ /\ msg.event = "join-room"
       /\ JoinRoom(Me, msg.room, msg.userId)
    \/ /\ msg.event = "leave-room"
       /\ LeaveRoom(Me, msg.room, msg.userId)
    \/ /\ msg.event = "offer"
       /\ Offer(Me, msg.data)
    \/ /\ msg.event = "answer"
       /\ Answer(Me, msg.data)
    \/ /\ msg.event = "ice-candidate"
       /\ IceCandidate(Me, msg.data)
    \/ /\ msg.event = "user-talking"
       /\ UserTalking(Me, msg.data)

\* the server's side of a step of the client: it handles what the step
\* emitted
Served == IF outgoing' = << >> THEN UNCHANGED svars ELSE Handled(outgoing'[1])

\* this.socket.emit(...) in a step of the client
Emits(msg) ==
    /\ outgoing' = <<msg>>
    /\ hasJoined' = (hasJoined \/ (msg.event = "join-room" /\ status[Me] = "open"))
    /\ dropped' = FALSE

\* a step of the client that emits nothing
EmitsNothing ==
    /\ outgoing' = << >>
    /\ UNCHANGED hasJoined
    /\ dropped' = FALSE

\* if (peerConnection) { ... }: the listener goes on with the connection
\* to the sender or, having none, does nothing
IfLinked(links, from) ==
    /\ outgoing' = << >>
    /\ UNCHANGED hasJoined
    /\ dropped' = ~MapHas(links, from)

\* the events of the server reach a connected socket that has joined a room
Receives == status[Me] = "open" /\ hasJoined

\* an invocation of the async method fn for participant peer, suspended at
\* the await of the call named at
Task(fn, peer, at) == [fn |-> fn, peer |-> peer, at |-> at]

Spawn(tasks, task) == tasks (+) SetToBag({task})

Settle(tasks, task) == tasks (-) SetToBag({task})

\* the invocations suspended on the connection to participant p
OnPeer(tasks, p) == {task \in BagToSet(tasks) : task.peer = p}

\* peerConnection.close(): the calls pending on a closed connection do not
\* come back to their callers
Close(tasks, p) == [task \in BagToSet(tasks) \ OnPeer(tasks, p) |-> tasks[task]]

\* new RTCPeerConnection(...); offers is history: the offers emitted for it
NewLink == [offers |-> 0]

\* createPeerConnection(userId): the existing connection is returned, or a
\* new one is stored in this.peerConnections ...
createPeerConnection(links, p) ==
    IF MapHas(links, p) THEN links ELSE MapSet(links, p, NewLink)

\* this.createOffer(userId) is called for an existing connection as well
createPeerConnectionOfferAlways(links, tasks, p) ==
    Spawn(tasks, Task("createOffer", p, "createOffer"))

\* ... and, for a new one, this.createOffer(userId) is called, which runs
\* up to its first await
createPeerConnectionOffer(links, tasks, p) ==
    IF MapHas(links, p) THEN tasks
    ELSE Spawn(tasks, Task("createOffer", p, "createOffer"))

\* removePeerConnection(userId)
removePeerConnection(links, p) ==
    IF MapHas(links, p) THEN MapDelete(links, p) ELSE links

\* users.forEach(userId => { if (userId !== this.userId)
\*     this.createPeerConnection(userId) }): the connections and the
\* suspended invocations after the loop has visited the ids in todo
RECURSIVE forEachUser(_, _, _)
forEachUser(links, tasks, todo) ==
    IF todo = {} THEN <<links, tasks>>
    ELSE LET p == CHOOSE x \in todo : TRUE
         IN  IF p # userId(Me)
             THEN forEachUser(createPeerConnection(links, p),
                              createPeerConnectionOffer(links, tasks, p),
                              todo \ {p})
             ELSE forEachUser(links, tasks, todo \ {p})

\* joinRoom() up to its await; value is roomInput.value.trim()
joinRoom(value) ==
    /\ status[Me] # "new"
    /\ appRoomId' = value
    /\ IF Falsy(value) THEN joining' = joining
       ELSE /\ acquired + joining < MaxStreams
            /\ joining' = joining + 1
    /\ EmitsNothing
    /\ UNCHANGED <<localStream, acquired, live, enabled, peerConnections,
                   pending>>

\* getMicrophoneAccess() returns: getUserMedia gave a stream, its tracks are
\* muted, and joinRoom goes on to emit join-room
getMicrophoneAccessResolves ==
    LET stream == acquired + 1
    IN  /\ joining > 0
        /\ joining' = joining - 1
        /\ acquired' = stream
        /\ live' = live \cup {stream}
        /\ localStream' = stream
        /\ enabled' = FALSE
        /\ Emits(ArgsEvent("join-room", appRoomId, userId(Me)))
        /\ UNCHANGED <<appRoomId, peerConnections, pending>>

\* join-room is emitted before the microphone is asked for, so that a denied
\* attempt has emitted it
getMicrophoneAccessRejectsAfterEmit ==
    /\ joining > 0
    /\ joining' = joining - 1
    /\ Emits(ArgsEvent("join-room", appRoomId, userId(Me)))
    /\ UNCHANGED <<appRoomId, localStream, acquired, live, enabled,
                   peerConnections, pending>>

\* getMicrophoneAccess() throws: joinRoom's catch shows the error
getMicrophoneAccessRejects ==
    /\ joining > 0
    /\ joining' = joining - 1
    /\ EmitsNothing
    /\ UNCHANGED <<appRoomId, localStream, acquired, live, enabled,
                   peerConnections, pending>>

\* leaveRoom()
leaveRoom ==
    /\ status[Me] # "new"
    /\ IF ~Falsy(appRoomId)
       THEN /\ Emits(ArgsEvent("leave-room", appRoomId, userId(Me)))
            /\ appRoomId' = NullRoom
       ELSE /\ EmitsNothing
            /\ UNCHANGED appRoomId
    /\ peerConnections' = << >>
    /\ pending' = EmptyBag
    /\ live' = live \ {localStream}
    /\ localStream' = NoStream
    /\ enabled' = FALSE
    /\ UNCHANGED <<acquired, joining>>

\* user-talking is emitted without the test of this.roomId
startTalkingAnyRoom ==
    /\ status[Me] # "new"
    /\ IF localStream # NoStream
       THEN /\ enabled' = TRUE
            /\ Emits(DataEvent("user-talking",
                          talkingData(appRoomId, userId(Me), TRUE)))
       ELSE /\ UNCHANGED enabled
            /\ EmitsNothing
    /\ UNCHANGED <<appRoomId, localStream, acquired, live, peerConnections,
                   pending, joining>>

\* startTalking()
startTalking ==
    /\ status[Me] # "new"
    /\ IF localStream # NoStream
       THEN /\ enabled' = TRUE
            /\ IF ~Falsy(appRoomId)
               THEN Emits(DataEvent("user-talking",
                              talkingData(appRoomId, userId(Me), TRUE)))
               ELSE EmitsNothing
       ELSE /\ UNCHANGED enabled
            /\ EmitsNothing
    /\ UNCHANGED <<appRoomId, localStream, acquired, live, peerConnections,
                   pending, joining>>

\* stopTalking()
stopTalking ==
    /\ status[Me] # "new"
    /\ IF localStream # NoStream
       THEN /\ enabled' = FALSE
            /\ IF ~Falsy(appRoomId)
               THEN Emits(DataEvent("user-talking",
                              talkingData(appRoomId, userId(Me), FALSE)))
               ELSE EmitsNothing
       ELSE /\ UNCHANGED enabled
            /\ EmitsNothing
    /\ UNCHANGED <<appRoomId, localStream, acquired, live, peerConnections,
                   pending, joining>>

\* peerConnection.onicecandidate of the connection to p, with a candidate
onicecandidate(p) ==
    /\ MapHas(peerConnections, p)
    /\ IF ~Falsy(appRoomId)
       THEN Emits(DataEvent("ice-candidate",
                      onicecandidateData(appRoomId, p)))
       ELSE EmitsNothing
    /\ UNCHANGED <<appRoomId, localStream, acquired, live, enabled,
                   peerConnections, pending, joining>>

\* socket.on('user-connected', (userId))
userConnected(p) ==
    /\ Receives
    /\ peerConnections' = createPeerConnection(peerConnections, p)
    /\ pending' = createPeerConnectionOffer(peerConnections, pending, p)
    /\ BagCardinality(pending') <= MaxTasks
    /\ EmitsNothing
    /\ UNCHANGED <<appRoomId, localStream, acquired, live, enabled, joining>>

\* socket.on('user-disconnected', (userId))
userDisconnected(p) ==
    /\ Receives
    /\ peerConnections' = removePeerConnection(peerConnections, p)
    /\ pending' = Close(pending, p)
    /\ EmitsNothing
    /\ UNCHANGED <<appRoomId, localStream, acquired, live, enabled, joining>>

\* socket.on('room-users', (users))
roomUsers(users) ==
    LET after == forEachUser(peerConnections, pending, users)
    IN  /\ Receives
        /\ peerConnections' = after[1]
        /\ pending' = after[2]
        /\ BagCardinality(pending') <= MaxTasks
        /\ EmitsNothing
        /\ UNCHANGED <<appRoomId, localStream, acquired, live, enabled,
                       joining>>

\* socket.on('offer'): handleOffer(data.offer, data.from) up to its first
\* await
handleOffer(from) ==
    /\ Receives
    /\ peerConnections' = createPeerConnection(peerConnections, from)
    /\ pending' = Spawn(createPeerConnectionOffer(peerConnections, pending,
                                                   from),
                        Task("handleOffer", from, "setRemoteDescription"))
    /\ BagCardinality(pending') <= MaxTasks
    /\ EmitsNothing
    /\ UNCHANGED <<appRoomId, localStream, acquired, live, enabled, joining>>

\* socket.on('answer'): handleAnswer(data.answer, data.from) up to its await
handleAnswer(from) ==
    /\ Receives
    /\ pending' = IF MapHas(peerConnections, from)
                  THEN Spawn(pending,
                             Task("handleAnswer", from, "setRemoteDescription"))
                  ELSE pending
    /\ BagCardinality(pending') <= MaxTasks
    /\ IfLinked(peerConnections, from)
    /\ UNCHANGED <<appRoomId, localStream, acquired, live, enabled,
                   peerConnections, joining>>

\* a candidate of a participant the client has no connection to is kept
\* for later
handleIceCandidateBuffered(from) ==
    /\ Receives
    /\ pending' = Spawn(pending,
                        Task("handleIceCandidate", from, "addIceCandidate"))
    /\ BagCardinality(pending') <= MaxTasks
    /\ IfLinked(peerConnections, from)
    /\ UNCHANGED <<appRoomId, localStream, acquired, live, enabled,
                   peerConnections, joining>>

\* socket.on('ice-candidate'): handleIceCandidate(data.candidate, data.from)
\* up to its await
handleIceCandidate(from) ==
    /\ Receives
    /\ pending' = IF MapHas(peerConnections, from)
                  THEN Spawn(pending,
                             Task("handleIceCandidate", from, "addIceCandidate"))
                  ELSE pending
    /\ BagCardinality(pending') <= MaxTasks
    /\ IfLinked(peerConnections, from)
    /\ UNCHANGED <<appRoomId, localStream, acquired, live, enabled,
                   peerConnections, joining>>

\* the call an invocation awaits next once the one it awaits has returned;
\* "emit" when what is left of the method is its socket.emit, "return" when
\* nothing is left
NextAwait(task) ==
    CASE task.fn = "createOffer" /\ task.at = "createOffer"
            -> "setLocalDescription"
      [] task.fn = "createOffer" /\ task.at = "setLocalDescription"
            -> "emit"
      [] task.fn = "handleOffer" /\ task.at = "setRemoteDescription"
            -> "createAnswer"
      [] task.fn = "handleOffer" /\ task.at = "createAnswer"
            -> "setLocalDescription"
      [] task.fn = "handleOffer" /\ task.at = "setLocalDescription"
            -> "emit"
      [] OTHER -> "return"

\* the promise a suspended invocation awaits is fulfilled: the invocation
\* runs to its next await or to its end
Fulfilled(task) ==
    LET next == NextAwait(task)
        rest == Settle(pending, task)
    IN  /\ BagIn(task, pending)
        /\ IF next = "emit" /\ task.fn = "createOffer"
           THEN /\ pending' = rest
                /\ peerConnections' =
                       [peerConnections EXCEPT ![task.peer].offers = @ + 1]
                /\ Emits(DataEvent("offer",
                               createOfferData(appRoomId, task.peer)))
           ELSE IF next = "emit"
           THEN /\ pending' = rest
                /\ Emits(DataEvent("answer",
                               handleOfferData(appRoomId, task.peer)))
                /\ UNCHANGED peerConnections
           ELSE IF next = "return"
           THEN /\ pending' = rest
                /\ EmitsNothing
                /\ UNCHANGED peerConnections
           ELSE /\ pending' = Spawn(rest, Task(task.fn, task.peer, next))
                /\ EmitsNothing
                /\ UNCHANGED peerConnections
        /\ UNCHANGED <<appRoomId, localStream, acquired, live, enabled,
                       joining>>

\* the promise is rejected: the method's catch logs the error
Rejected(task) ==
    /\ BagIn(task, pending)
    /\ pending' = Settle(pending, task)
    /\ EmitsNothing
    /\ UNCHANGED <<appRoomId, localStream, acquired, live, enabled,
                   peerConnections, joining>>

\* the connection of Me closes: the server's disconnect handler runs, and
\* the client's socket.on('disconnect') updates the status line
socketDisconnect ==
    /\ Disconnect(Me)
    /\ outgoing' = << >>
    /\ dropped' = FALSE
    /\ UNCHANGED <<appRoomId, localStream, acquired, live, enabled,
                   peerConnections, pending, joining, hasJoined>>

ClientInit == Init /\ idKind = "generated"

\* the client among the events the server sends it; what it emits is
\* recorded in outgoing
ClientNext ==
    \/ Connection(Me) /\ UNCHANGED cvars
    \/ \E value \in RoomIds \cup {EmptyRoom} :
          joinRoom(value) /\ UNCHANGED svars
    \/ getMicrophoneAccessResolves /\ UNCHANGED svars
    \/ getMicrophoneAccessRejects /\ UNCHANGED svars
    \/ leaveRoom /\ UNCHANGED svars
    \/ \E p \in Peers : onicecandidate(p) /\ UNCHANGED svars
    \/ \E p \in Peers : userConnected(p) /\ UNCHANGED svars
    \/ \E p \in Peers : userDisconnected(p) /\ UNCHANGED svars
    \/ \E users \in Rosters : roomUsers(users) /\ UNCHANGED svars
    \/ \E from \in Peers : handleOffer(from) /\ UNCHANGED svars
    \/ \E from \in Froms : handleAnswer(from) /\ UNCHANGED svars
    \/ \E from \in Froms : handleIceCandidate(from) /\ UNCHANGED svars
    \/ \E task \in BagToSet(pending) : Fulfilled(task) /\ UNCHANGED svars
    \/ \E task \in BagToSet(pending) : Rejected(task) /\ UNCHANGED svars
    \/ socketDisconnect

ClientSpec == ClientInit /\ [][ClientNext]_vars

\* the client's room sessions, with the server handling what it emits
SessionNext ==
    \/ Connection(Me) /\ UNCHANGED cvars
    \/ \E value \in RoomIds \cup {EmptyRoom} : joinRoom(value) /\ Served
    \/ getMicrophoneAccessResolves /\ Served
    \/ getMicrophoneAccessRejects /\ Served
    \/ leaveRoom /\ Served
    \/ startTalking /\ Served
    \/ stopTalking /\ Served
    \/ socketDisconnect

SessionSpec == ClientInit /\ [][SessionNext]_vars

\* ------------------------------------------------------------- vocabulary
\* the sessions joined to room r
JoinedTo(joined, r) == {t \in Sockets : r \in joined[t]}

\* the sockets the step emits an event to
Recipients == {t \in Sockets : emitted'[t] # << >>}

\* the step is the disconnect of session s
DisconnectOf(s) == status[s] = "open" /\ status'[s] = "closed"

\* the step is the relay of an offer, answer or ice-candidate of s
\* addressed to q in room r
RelayOf(s, r, q) ==
    \/ Offer(s, createOfferData(r, q))
    \/ Answer(s, handleOfferData(r, q))
    \/ IceCandidate(s, onicecandidateData(r, q))

\* the step is the handling of user-talking of s in room r
TalkingOf(s, r) ==
    \E b \in BOOLEAN : UserTalking(s, talkingData(r, userId(s), b))

\* socket t holds the event
Holds(box, t, msg) == \E i \in 1..Len(box[t]) : box[t][i] = msg

\* ----------------------------------------------------------------- C1
\* C1: when a session that joined room R as participant p, and has not
\* left it, disconnects, p is no longer a member of R afterwards, and when
\* p was the only member the registry has no entry for R.
C1_DisconnectRemovesMember ==
    [][\A s \in Sockets : \A r \in RoomIds :
          (/\ DisconnectOf(s)
           /\ r \in sioRooms[s]
           /\ userId(s) \in MembersOf(activeRooms, r))
          => /\ userId(s) \notin MembersOf(activeRooms', r)
             /\ (MembersOf(activeRooms, r) = {userId(s)}
                    => ~MapHas(activeRooms', r))]_vars

\* ----------------------------------------------------------------- C2
\* C2: when a session joined to room R as p disconnects without leave-room,
\* every other session that stays joined to R is eventually sent
\* user-disconnected(p), the notification leave-room(R, p) sends.
C2_DisconnectNotifiesMembers ==
    \A t \in Sockets : \A s \in Sockets \ {t} : \A r \in RoomIds :
        (<<t, r, userId(s)>> \in owed)
            ~> (Told(emitted, t, userId(s)) \/ r \notin sioRooms[t])

\* ----------------------------------------------------------------- C3
\* C3: in a room of three or more joined sessions, an offer, answer or
\* ice-candidate addressed to participant q reaches only the session
\* joined to the room as q.
C3_RelayIsUnicast ==
    [][\A s \in Sockets : \A r \in RoomIds : \A q \in PeerIds(s) :
          (RelayOf(s, r, q) /\ Cardinality(JoinedTo(sioRooms, r)) >= 3)
          => \A t \in Recipients : userId(t) = q /\ r \in sioRooms[t]]_vars

\* ----------------------------------------------------------------- C4
\* C4: every offer, answer and ice-candidate the server relays carries
\* from = the participant id of the client that sent it.
C4_RelayCarriesSender ==
    [][\A s \in Sockets : \A r \in RoomIds : \A q \in PeerIds(s) :
          RelayOf(s, r, q)
          => \A t \in Recipients : \A i \in 1..Len(emitted'[t]) :
                emitted'[t][i].data.from = userId(s)]_vars

\* ----------------------------------------------------------------- C5
\* C5: a room has an entry in the registry exactly when its member set is
\* not empty: no entry ever holds an empty Set.
C5_NoEmptyRoom ==
    \A r \in RoomIds :
        MapHas(activeRooms, r) <=> (MembersOf(activeRooms, r) # {})

\* a leave-room cleared the last binding to a room, and the room is gone
C5_Witness ==
    \E s \in Sockets : \E r \in cleared[s] :
        status[s] = "open" /\ ~MapHas(activeRooms, r)

\* ----------------------------------------------------------------- C6
\* C6: the member set of a room that only join-room and leave-room have
\* touched is the reference set of its joins and leaves, and a join of a
\* participant that is a member already leaves the registry unchanged.
C6_MembersMatchReference ==
    /\ [](\A r \in RoomIds \ cleaned :
             MembersOf(activeRooms, r) = refMembers[r])
    /\ [][\A s \in Sockets : \A r \in RoomIds :
             (/\ JoinRoom(s, r, userId(s))
              /\ userId(s) \in MembersOf(activeRooms, r))
             => activeRooms' = activeRooms]_vars

\* a room with two members, one of which has joined it twice, after another
\* participant has left it
C6_Witness ==
    \E s, t, u \in Sockets : \E r \in RoomIds :
        /\ s # t
        /\ r \in cleared[u]
        /\ refMembers[r] = {userId(s), userId(t)}
        /\ MembersOf(activeRooms, r) = refMembers[r]
        /\ Holds(emitted, s, UsersEvent(refMembers[r]))
        /\ Holds(emitted, t, IdEvent("user-connected", userId(s)))

\* ----------------------------------------------------------------- C7
\* C7: once leave-room has cleared the binding of a session to room R, no
\* later offer, answer, ice-candidate, user-talking or leave-room of that
\* session naming R is delivered to a session joined to R.
C7_ClearedBindingIsSilent ==
    [][\A s \in Sockets : \A r \in cleared[s] :
          (\/ \E q \in PeerIds(s) : RelayOf(s, r, q)
           \/ TalkingOf(s, r)
           \/ LeaveRoom(s, r, userId(s)))
          => \A t \in JoinedTo(sioRooms, r) : emitted'[t] = << >>]_vars

\* ----------------------------------------------------------------- C8
\* C8: user-talking sent by one of the N sessions joined to a room is
\* delivered, once, to exactly the N-1 other joined sessions and not to
\* the sender.
C8_TalkingReachesOthers ==
    [][\A s \in Sockets : \A r \in sioRooms[s] : \A b \in BOOLEAN :
          UserTalking(s, talkingData(r, userId(s), b))
          => /\ Recipients = JoinedTo(sioRooms, r) \ {s}
             /\ Cardinality(Recipients)
                    = Cardinality(JoinedTo(sioRooms, r)) - 1
             /\ emitted'[s] = << >>
             /\ \A t \in Recipients :
                   emitted'[t] = <<DataEvent("user-talking",
                                       [userId |-> userId(s),
                                        isTalking |-> b])>>]_vars

\* user-talking of a session in a room of three has reached the other two
C8_Witness ==
    \E s, t, u \in Sockets : \E r \in RoomIds : \E b \in BOOLEAN :
        /\ s # t /\ s # u /\ t # u
        /\ JoinedTo(sioRooms, r) = {s, t, u}
        /\ emitted[s] = << >>
        /\ emitted[t] = <<DataEvent("user-talking",
                              [userId |-> userId(s), isTalking |-> b])>>
        /\ emitted[u] = emitted[t]

\* ----------------------------------------------------------------- C9
\* C9: on join-room(R, p) room-users goes to the joining session alone, and
\* its roster is the member set of R after p was added: it has p and every
\* member R had before.
C9_RosterAfterAdd ==
    [][\A s \in Sockets : \A r \in RoomIds :
          JoinRoom(s, r, userId(s))
          => /\ emitted'[s] =
                   <<UsersEvent(MembersOf(activeRooms', r))>>
             /\ userId(s) \in MembersOf(activeRooms', r)
             /\ MembersOf(activeRooms, r) \subseteq MembersOf(activeRooms', r)
             /\ \A t \in Sockets \ {s} : \A i \in 1..Len(emitted'[t]) :
                   emitted'[t][i].event # "room-users"]_vars

\* a joining session is sent a roster of itself and an earlier member
C9_Witness ==
    \E s, t \in Sockets : \E r \in RoomIds :
        /\ s # t
        /\ {s, t} \subseteq JoinedTo(sioRooms, r)
        /\ emitted[s] = <<UsersEvent({userId(s), userId(t)})>>
        /\ emitted[t] = <<IdEvent("user-connected", userId(s))>>

\* ---------------------------------------------------------------- C10
\* C10: leave-room(R, p) sends each remaining member user-disconnected(p)
\* once, and the disconnect of a session whose bindings leave-room has
\* cleared changes neither the registry nor what any member is sent.
C10_DisconnectAfterLeave ==
    [][\A s \in Sockets :
          /\ \A r \in RoomIds :
                LeaveRoom(s, r, userId(s))
                => \A t \in JoinedTo(sioRooms, r) \ {s} :
                      emitted'[t] = <<IdEvent("user-disconnected", userId(s))>>
          /\ (DisconnectOf(s) /\ sioRooms[s] = {} /\ cleared[s] # {})
                => activeRooms' = activeRooms /\ emitted' = NoEvents]_vars

\* a session has left a room and disconnected; a session it left behind is
\* still joined to the room
C10_Witness ==
    \E s, t \in Sockets : \E r \in cleared[s] :
        /\ status[s] = "closed"
        /\ s # t
        /\ r \in sioRooms[t]
        /\ userId(s) \notin MembersOf(activeRooms, r)

\* ------------------------------------------------------ client vocabulary
\* the createOffer invocations for participant p that are suspended
Offering(tasks, p) ==
    CopiesIn(Task("createOffer", p, "createOffer"), tasks)
        + CopiesIn(Task("createOffer", p, "setLocalDescription"), tasks)

\* the client has a connection to participant p
Linked(links, p) == MapHas(links, p)

\* the number of invocations suspended on the connection to participant p
Suspended(tasks, p) ==
    BagCardinality([task \in OnPeer(tasks, p) |-> tasks[task]])

C12_MicrophoneReleased ==
    [][/\ (leaveRoom \/ DisconnectOf(Me) \/ getMicrophoneAccessRejects)
             => live' = {}
       /\ getMicrophoneAccessResolves => localStream \notin live']_vars

\* ---------------------------------------------------------------- C13
\* C13: when the microphone is denied during joinRoom the attempt emits no
\* join-room and the server's registry and room bindings stay as they were;
\* the server has handled a join-room of the client only after a capture
\* stream was acquired.
C13_DeniedJoinEmitsNothing ==
    /\ [][getMicrophoneAccessRejects
             => /\ outgoing' = << >>
                /\ activeRooms' = activeRooms
                /\ sioRooms' = sioRooms
                /\ emitted' = emitted]_vars
    /\ []((hasJoined \/ activeRooms # << >>) => acquired > 0)

\* the one join attempt of a connected client was denied: no stream was
\* acquired, nothing is emitted and the registry is empty
C13_Witness ==
    /\ status[Me] = "open"
    /\ appRoomId \in RoomIds
    /\ joining = 0
    /\ acquired = 0
    /\ outgoing = << >>
    /\ activeRooms = << >>

\* ---------------------------------------------------------------- C14
\* C14: while this.roomId is unset (null or empty) neither startTalking nor
\* stopTalking emits user-talking, or anything else, whatever else the
\* state of the client is; the server sends nothing on account of them.
C14_NoTalkingWithoutRoom ==
    [][((startTalking \/ stopTalking) /\ Served /\ Falsy(appRoomId))
          => /\ outgoing' = << >>
             /\ emitted' = emitted
             /\ appRoomId' = appRoomId]_vars

\* startTalking has unmuted the tracks of a client that holds a stream and
\* has no room id, and nothing was emitted
C14_Witness ==
    /\ Falsy(appRoomId)
    /\ localStream # NoStream
    /\ enabled
    /\ outgoing = << >>

\* ---------------------------------------------------------------- C15
\* C15: user-connected(p) makes sure the client has a connection to p but
\* starts no offer for it: only the participant that learns of p from a
\* roster initiates, so that the two sides never both have an offer
\* outstanding.
C15_UserConnectedStartsNoOffer ==
    [][\A p \in Peers :
          userConnected(p)
          => /\ Linked(peerConnections', p)
             /\ Offering(pending', p) = Offering(pending, p)
             /\ outgoing' = << >>]_vars

\* ---------------------------------------------------------------- C16
\* C16: no two negotiation transitions of one connection run concurrently:
\* while createOffer, handleOffer, handleAnswer or handleIceCandidate for
\* participant p is suspended at an await, no other of them is started for
\* p and the connection to p is not removed.
C16_OneTransitionPerLink ==
    /\ [](\A p \in Froms : Suspended(pending, p) <= 1)
    /\ [][\A p \in Froms :
             Suspended(pending, p) > 0 => Linked(peerConnections', p)]_vars

\* ---------------------------------------------------------------- C17
\* C17: an answer or ice-candidate from a participant the client has no
\* connection to changes nothing: the connections stay as they are, no
\* invocation is started (the candidate is not kept for later) and nothing
\* is emitted.
C17_UnknownSenderIsNoOp ==
    [][\A from \in Froms :
          (/\ ~Linked(peerConnections, from)
           /\ (handleAnswer(from) \/ handleIceCandidate(from)))
          => /\ peerConnections' = peerConnections
             /\ pending' = pending
             /\ outgoing' = << >>
             /\ appRoomId' = appRoomId]_vars

\* the client, with a connection to one participant and a createOffer under
\* way, has just dropped an answer or candidate of a sender it has no
\* connection to
C17_Witness ==
    /\ dropped
    /\ \E p \in Peers : Linked(peerConnections, p) /\ Offering(pending, p) = 1
    /\ \E from \in Froms : ~Linked(peerConnections, from)
    /\ outgoing = << >>

\* ---------------------------------------------------------------- C18
\* C18: the server drops a join-room whose room id is missing (null or
\* empty): the registry stays as it was and neither room-users nor
\* user-connected is sent to any session.
C18_MissingRoomJoinDropped ==
    [][\A room \in {NullRoom, EmptyRoom} :
          JoinRoom(Me, room, userId(Me))
          => /\ activeRooms' = activeRooms
             /\ sioRooms' = sioRooms
             /\ emitted' = NoEvents]_vars

\* ---------------------------------------------------------------- C19
\* C19: this.roomId is set only between a join-room the client emitted and
\* its next leave-room, so that it names a room the server has joined the
\* client to; a joinRoom that fails at the microphone leaves it unset.  (A
\* joinRoom still awaiting the microphone is left out of account.)
C19_RoomIdOnlyWhileJoined ==
    (joining = 0 /\ ~Falsy(appRoomId)) => appRoomId \in sioRooms[Me]

\* ---------------------------------------------------------------- C20
\* C20: while the client is in no room (this.roomId is null) it has no
\* connection to any participant, also when a user-connected, room-users or
\* offer event on its way is delivered after leaveRoom: no connection is
\* created then, and no offer whose room is null is emitted.
C20_NoLinkOutsideRoom ==
    /\ appRoomId = NullRoom => DOMAIN peerConnections = {}
    /\ \A i \in 1..Len(outgoing) :
          outgoing[i].event = "offer" => outgoing[i].data.room # NullRoom

====
